---- MODULE Spec2Model ----
(***************************************************************************)
(* Screenshot folder monitor (screenshot_monitor.py): the watchdog handler *)
(* ScreenshotHandler.on_created with its extension filter, and the polling *)
(* loop _wait_for_stable_file that decides when a new file has stopped     *)
(* growing, against a file system whose files change while the loop runs.  *)
(*                                                                         *)
(* Time is in milliseconds.  A path is a sequence of one-character         *)
(* strings, so that name, suffix and lower() are computed, not assumed.    *)
(* What each file does over time is an input (a script of timed writes and *)
(* deletions chosen in Init); the handler's steps read the file system at  *)
(* the clock value `now`.                                                  *)
(*                                                                         *)
(* The UI thread (TrayApp.on_new_file and toggle_pause, PreviewPopup with  *)
(* its hide timer, slide animations and mouse handlers) is modelled one    *)
(* handler per action; it gets the emissions of the observer thread in     *)
(* order, each some time after it was made.                                *)
(***************************************************************************)
EXTENDS Integers, Sequences, FiniteSets, TLC

(***************************************************************************)
(* Program constants                                                       *)
(***************************************************************************)

\* timeout_s = 2.5 (default argument of _wait_for_stable_file), in ms
TimeoutMs == 2500

\* time.sleep(0.08), in ms
PollIntervalMs == 80

\* last_size = -1: the value of last_size before any reading
NoReading == -1

\* AppConfig.popup_seconds, the default
PopupSeconds == 5

\* _slide_in_animation.setDuration(500)
SlideInMs == 500

\* _slide_out_animation.setDuration(400)
SlideOutMs == 400

\* mouseMoveEvent: dist < 8
DragDistance == 8

(***************************************************************************)
(* Bounds of the model                                                     *)
(***************************************************************************)

\* creation events (or other events) delivered in one run of Spec
MaxEvents == 2

\* timed operations in the script of one file, in SpecStability
MaxOps == 3

\* timed operations in the script of one file, in FairStability
MaxOpsFair == 2

\* timed operations in the script of one file, in Spec
MaxOpsWatch == 1

\* how much longer than PollIntervalMs one time.sleep may take
MaxOversleepMs == 40

\* events raised in one run of SpecQueue
MaxQueued == 3

\* creation events raised in one run of SpecPopup
MaxReady == 2

(***************************************************************************)
(* Paths and pathlib                                                       *)
(***************************************************************************)

UpperChars == <<"A","B","C","D","E","F","G","H","I","J","K","L","M",
                "N","O","P","Q","R","S","T","U","V","W","X","Y","Z">>

LowerChars == <<"a","b","c","d","e","f","g","h","i","j","k","l","m",
                "n","o","p","q","r","s","t","u","v","w","x","y","z">>

\* the characters of the model are those of ISO 8859-1; beyond A-Z,
\* str.lower() changes the capital letters of its upper half
Latin1UpperChars == <<"À","Á","Â","Ã","Ä","Å","Æ","Ç","È","É","Ê","Ë",
                      "Ì","Í","Î","Ï","Ð","Ñ","Ò","Ó","Ô","Õ","Ö","Ø",
                      "Ù","Ú","Û","Ü","Ý","Þ">>

Latin1LowerChars == <<"à","á","â","ã","ä","å","æ","ç","è","é","ê","ë",
                      "ì","í","î","ï","ð","ñ","ò","ó","ô","õ","ö","ø",
                      "ù","ú","û","ü","ý","þ">>

\* what str.lower() makes of each character it changes
LowerOf ==
    LET from == UpperChars \o Latin1UpperChars
        to == LowerChars \o Latin1LowerChars
    IN  [c \in {from[i] : i \in 1..Len(from)} |->
            to[CHOOSE i \in 1..Len(from) : from[i] = c]]

\* str.lower() on one character
LowerCharIdentity(c) == c

LowerChar(c) == IF c \in DOMAIN LowerOf THEN LowerOf[c] ELSE c

\* str.lower()
Lower(s) == [i \in 1..Len(s) |-> LowerChar(s[i])]

\* path separators of a Windows path: sep and altsep
IsSep(c) == c \in {"\\", "/"}

\* the letters a drive may have: A-Z and a-z
IsDriveLetter(c) ==
    \E i \in 1..Len(UpperChars) : UpperChars[i] = c \/ LowerChars[i] = c

\* the position of the first separator at or after position from, 0 if none
FindSep(s, from) ==
    IF \E i \in from..Len(s) : IsSep(s[i])
    THEN CHOOSE i \in from..Len(s) : IsSep(s[i]) /\ \A j \in from..(i-1) : ~IsSep(s[j])
    ELSE 0

\* str.rfind(".") + 1: the last position of a dot, 0 if none
LastDot(s) ==
    IF \E i \in 1..Len(s) : s[i] = "."
    THEN CHOOSE i \in 1..Len(s) : s[i] = "." /\ \A j \in (i+1)..Len(s) : s[j] # "."
    ELSE 0

\* str.replace("/", "\\")
ToSep(s) == [i \in 1..Len(s) |-> IF s[i] = "/" THEN "\\" ELSE s[i]]

\* str.startswith(prefix)
StartsWith(s, prefix) == Len(s) >= Len(prefix) /\ SubSeq(s, 1, Len(prefix)) = prefix

\* the prefix of an extended path: \\?\ or \\?\UNC
ExtendedPrefix(s) ==
    IF ~StartsWith(s, <<"\\","\\","?","\\">>) THEN <<>>
    ELSE IF StartsWith(SubSeq(s, 5, Len(s)), <<"U","N","C","\\">>)
         THEN SubSeq(s, 1, 7)
         ELSE SubSeq(s, 1, 4)

\* what follows the prefix of an extended path; after \\?\UNC the path goes
\* on as the UNC path \\server\share...
AfterExtendedPrefix(s) ==
    LET n == Len(ExtendedPrefix(s))
    IN  IF n = 7 THEN <<"\\">> \o SubSeq(s, 8, Len(s)) ELSE SubSeq(s, n + 1, Len(s))

\* str.lstrip(sep)
LStripSep(s) ==
    IF \A i \in 1..Len(s) : IsSep(s[i]) THEN <<>>
    ELSE SubSeq(s, CHOOSE i \in 1..Len(s) :
                       ~IsSep(s[i]) /\ \A j \in 1..(i-1) : IsSep(s[j]),
                Len(s))

\* splitroot on what follows the prefix of an extended path: the drive is
\* \\server\share of a UNC path or a letter and a colon
SplitRootAfter(prefix, part) ==
    LET i == FindSep(part, 3)
        j == FindSep(part, i + 1)
        end == IF j = 0 THEN Len(part) ELSE j - 1
        unc == /\ Len(part) >= 2 /\ IsSep(part[1]) /\ IsSep(part[2])
               /\ ~(Len(part) >= 3 /\ IsSep(part[3]))
               /\ i # 0 /\ j # i + 1
        letter == Len(part) >= 2 /\ part[2] = ":" /\ IsDriveLetter(part[1])
        drv == IF letter THEN SubSeq(part, 1, 2) ELSE <<>>
        rest == IF letter THEN SubSeq(part, 3, Len(part)) ELSE part
    IN  IF unc
        THEN [drv  |-> IF prefix # <<>> THEN prefix \o SubSeq(part, 2, end)
                                        ELSE SubSeq(part, 1, end),
              root |-> <<"\\">>,
              rel  |-> SubSeq(part, end + 2, Len(part))]
        ELSE [drv  |-> prefix \o drv,
              root |-> IF rest # <<>> /\ IsSep(rest[1]) THEN <<"\\">> ELSE <<>>,
              rel  |-> LStripSep(rest)]

\* splitroot: the drive, the root and the rest of a Windows path (the
\* prefix and what follows it are worked out once)
SplitRoot(p) ==
    CHOOSE r \in { SplitRootAfter(ExtendedPrefix(s), AfterExtendedPrefix(s)) :
                      s \in {ToSep(p)} } : TRUE

\* the length of the drive of a Windows path
DriveLen(s) == Len(SplitRoot(s).drv)

\* the components between separators, without the empty ones (doubled,
\* leading or trailing separators) and without the "." components
SplitParts(s) ==
    LET n == Len(s)
        From[i \in 1..(n + 1)] ==
            IF i > n THEN <<>>
            ELSE LET j == FindSep(s, i)
                     end == IF j = 0 THEN n + 1 ELSE j
                     head == SubSeq(s, i, end - 1)
                 IN  (IF head = <<>> \/ head = <<".">> THEN <<>> ELSE <<head>>)
                         \o (IF end > n THEN <<>> ELSE From[end + 1])
    IN  From[1]

\* Path(p) on Windows: the drive, the root and the components of p
ParsePath(p) ==
    CHOOSE q \in { [drv |-> r.drv, root |-> r.root, parts |-> SplitParts(r.rel)] :
                      r \in {SplitRoot(p)} } : TRUE

(***************************************************************************)
(* The paths events name.  The watched directory is "s" or ".".            *)
(***************************************************************************)

\* os.path.join(watch_dir, name) for the watched directory "s"
InDir(name) == <<"s", "\\">> \o name

\* os.path.join(watch_dir, name) for the watched directory "." (--watch-dir .)
InHere(name) == <<".", "\\">> \o name

N_cap1png == <<"c","a","p","1",".","p","n","g">>

P_fooPNG  == InDir(<<"f","o","o",".","P","N","G">>)
P_cap1png == InHere(N_cap1png)
P_footxt  == InDir(<<"f","o","o",".","t","x","t">>)
P_foo     == InDir(<<"f","o","o">>)
P_dotpng  == InDir(<<".","p","n","g">>)
P_xpng    == InDir(<<"x",".","p","n","g">>)
P_aJpg    == InDir(<<"a",".","J","p","g">>)
\* spellings pathlib normalises: a "." component, "/", a doubled and a
\* trailing separator; and one it keeps: a ".." component
P_ajpeg   == <<"s","\\",".",".","\\","s","\\","a",".","t","a","r",".","j","p","e","g">>
P_abmp    == <<"s","\\",".","\\","a",".","b","m","p">>
P_agif    == <<"s","/","a",".","g","i","f">>
P_awebp   == <<"s","\\","\\","a",".","w","e","b","p","\\">>
P_apngbak == InDir(<<"a",".","p","n","g",".","b","a","k">>)
P_apngdot == InDir(<<"a","p","n","g",".">>)
P_aPNG    == InDir(<<"a",".","P","Ñ","G">>)

\* the paths of the events for the files of the scripts
ScreenshotPaths == {P_fooPNG, P_cap1png}

\* the paths on which the scripts put files, as the file system names them
FilePaths == {P_fooPNG, N_cap1png}

EventPaths == {P_fooPNG, P_cap1png, P_footxt, P_foo, P_dotpng, P_aJpg, P_ajpeg,
               P_abmp, P_agif, P_awebp, P_apngbak, P_apngdot, P_aPNG}

\* the paths of the events, parsed
ParsedEventPaths == [p \in EventPaths \cup {P_xpng} |-> ParsePath(p)]

\* Path(p): as parsed
Path(p) == IF p \in DOMAIN ParsedEventPaths THEN ParsedEventPaths[p] ELSE ParsePath(p)

\* "\\".join(parts)
RECURSIVE JoinParts(_)
JoinParts(parts) ==
    IF parts = <<>> THEN <<>>
    ELSE IF Len(parts) = 1 THEN parts[1]
    ELSE parts[1] \o <<"\\">> \o JoinParts(Tail(parts))

\* Path(p).name: the final component, "" when there is none
PathName(p) ==
    LET parts == Path(p).parts
    IN  IF parts = <<>> THEN <<>> ELSE parts[Len(parts)]

\* Path(p).suffix: from the last dot of the name, when that dot is neither
\* the first nor the last character of the name; otherwise ""
PathSuffix(p) ==
    LET name == PathName(p)
        i == LastDot(name)
    IN  IF 1 < i /\ i < Len(name) THEN SubSeq(name, i, Len(name)) ELSE <<>>

\* drive, root and components joined with backslashes
FormatParsedParts(q) == q.drv \o q.root \o JoinParts(q.parts)

\* str(Path(p)): the path in that form, "." for the empty path
PathStrLower(p) ==
    LET s == FormatParsedParts(Path(p))
    IN  IF s = <<>> THEN <<".">> ELSE Lower(s)

PathStr(p) ==
    LET s == FormatParsedParts(Path(p))
    IN  IF s = <<>> THEN <<".">> ELSE s

IMAGE_EXTS == { <<".","p","n","g">>, <<".","j","p","g">>, <<".","j","p","e","g">>,
                <<".","b","m","p">>, <<".","g","i","f">>, <<".","w","e","b","p">> }

\* the test of on_created line 61 (negated): path.suffix.lower() in IMAGE_EXTS
IsImage(p) == Lower(PathSuffix(p)) \in IMAGE_EXTS

(***************************************************************************)
(* The events                                                              *)
(***************************************************************************)

\* what watchdog hands to FileSystemEventHandler.dispatch
RawEvents ==
    [event_type : {"created"}, is_directory : {FALSE}, src_path : EventPaths]
    \cup [event_type : {"created"}, is_directory : {TRUE}, src_path : {P_xpng, P_foo}]
    \cup [event_type : {"modified", "deleted", "moved"}, is_directory : {FALSE},
          src_path : {P_fooPNG}]

\* the events of SpecStability: one file, and one event of each kind of outcome
StabilityEvents ==
    { e \in RawEvents : e.src_path = P_fooPNG \/ (e.is_directory /\ e.src_path = P_xpng) }
    \cup [event_type : {"created"}, is_directory : {FALSE}, src_path : {P_footxt}]

NoEvent == [event_type |-> "none", is_directory |-> FALSE, src_path |-> <<>>]

(***************************************************************************)
(* The file system.  The script of a path is the sequence of operations    *)
(* other processes apply to the file at that path, each at a time `at`:    *)
(*   write   the file holds `size` bytes (created if absent)               *)
(*   delete  the file is removed, or renamed away                          *)
(*   stream  from `at` on, `size` more bytes are appended every `every` ms *)
(* An operation is in effect until the next one.                           *)
(***************************************************************************)

OpTimes == {0, 50, 80, 150, 2450}

Sizes == {0, 50, 500}

StreamPeriods == {80, 100, 150}

Ops == [at : OpTimes, op : {"write"}, size : Sizes, every : {0}]
       \cup [at : OpTimes, op : {"delete"}, size : {0}, every : {0}]
       \cup [at : OpTimes, op : {"stream"}, size : {50}, every : StreamPeriods]

\* the operations of the scripts of Spec
WatchOps == [at : {0, 100}, op : {"write"}, size : {0, 500}, every : {0}]
            \cup [at : {0, 100}, op : {"delete"}, size : {0}, every : {0}]

\* the scripts of at most n operations of the set ops, at increasing times
Scripts(ops, n) ==
    LET OfLen[k \in 0..n] ==
            IF k = 0
            THEN { << >> }
            ELSE { t \in { Append(s, o) : s \in OfLen[k - 1], o \in ops } :
                     k = 1 \/ t[k - 1].at < t[k].at }
    IN  UNION { OfLen[k] : k \in 0..n }

\* no file at the path; fid counts the files created at the path so far
NoFile == [exists |-> FALSE, size |-> 0, fid |-> 0]

\* the file after operation o has been in effect from o.at to `until`
ApplyOp(f, o, until) ==
    LET fid == IF f.exists THEN f.fid ELSE f.fid + 1
        base == IF f.exists THEN f.size ELSE 0
    IN  CASE o.op = "write"  -> [exists |-> TRUE, size |-> o.size, fid |-> fid]
          [] o.op = "delete" -> [exists |-> FALSE, size |-> 0, fid |-> f.fid]
          [] o.op = "stream" ->
                [exists |-> TRUE,
                 size |-> base + o.size * (((until - o.at) \div o.every) + 1),
                 fid |-> fid]

RECURSIVE ApplyFrom(_, _, _, _)
ApplyFrom(s, t, i, f) ==
    IF i > Len(s) \/ s[i].at > t
    THEN f
    ELSE LET until == IF i < Len(s) /\ s[i+1].at <= t THEN s[i+1].at - 1 ELSE t
         IN  ApplyFrom(s, t, i + 1, ApplyOp(f, s[i], until))

\* the file a script has produced at time t
FileAt(s, t) == ApplyFrom(s, t, 1, NoFile)

(***************************************************************************)
(* State                                                                   *)
(***************************************************************************)

VARIABLES
    script,     \* environment: FilePaths -> script of the file at that path
    feed,       \* environment: the events the watched directory can produce
    sleepMs,    \* environment: how long one time.sleep(0.08) takes
    now,        \* the clock, time.time() in ms
    pending,    \* environment: events the directory has still to raise
    queue,      \* watchdog: the events raised and not yet dispatched, oldest first
    pc,         \* where the observer thread is: "idle", "loop" (line 72), "sleep" (line 80)
    event,      \* dispatch: the latest event handed to the handler, NoEvent before
    path,       \* on_created: the string the Path of the latest check was built from
    start,      \* _wait_for_stable_file: start, of the latest check
    last_size,  \* _wait_for_stable_file: last_size, of the latest check
    emitted,    \* bridge.file_created: the emissions so far, in order
    evIndex,    \* history: number of events dispatched so far
    waited,     \* history: how long the latest dispatched event was in the queue
    ref,        \* the specification's polling algorithm, run beside the latest check
    checkEv,    \* history: the number (evIndex) of the event of the latest check
    checks,     \* history: number of calls of _wait_for_stable_file so far
    returns,    \* history: number of returns of _wait_for_stable_file so far
    readings,   \* history: the stat outcomes of the latest check, in order
    verdict,    \* history: which return ended the latest check, "None" before
    result,     \* history: the value the latest check returned
    paused,     \* TrayApp._paused
    delivered,  \* Qt: how many emissions of file_created have reached on_new_file
    popup,      \* the PreviewPopup object: its attributes, timer and animations
    pointer,    \* environment: the mouse buttons held, a drag in progress
    uiLog       \* history of the UI thread

vars == <<script, feed, sleepMs, now, pending, queue, pc, event, path, start,
          last_size, emitted, evIndex, waited, ref, checkEv, checks, returns,
          readings, verdict, result, paused, delivered, popup, pointer, uiLog>>

\* what the UI thread owns
uiVars == <<paused, delivered, popup, pointer, uiLog>>

\* what the observer thread and the file system own
watcherVars == <<script, feed, sleepMs, now, pending, queue, pc, event, path, start,
                 last_size, emitted, evIndex, waited, ref, checkEv, checks, returns,
                 readings, verdict, result>>

envVars == <<script, feed, sleepMs>>

\* the name under which the file system knows the file a path leads to:
\* every spelling of a path leads to the same file
RECURSIVE WalkParts(_, _, _)
\* the components the file system ends on: ".." leaves the directory it
\* follows, and stays at the root
WalkParts(done, parts, rooted) ==
    IF parts = <<>> THEN done
    ELSE IF Head(parts) # <<".", ".">>
         THEN WalkParts(Append(done, Head(parts)), Tail(parts), rooted)
    ELSE IF done # <<>> /\ done[Len(done)] # <<".", ".">>
         THEN WalkParts(SubSeq(done, 1, Len(done) - 1), Tail(parts), rooted)
    ELSE IF rooted
         THEN WalkParts(done, Tail(parts), rooted)
    ELSE WalkParts(Append(done, Head(parts)), Tail(parts), rooted)

WalkPath(p) ==
    CHOOSE f \in { FormatParsedParts([q EXCEPT !.parts =
                                         WalkParts(<<>>, @, q.root # <<>>)]) :
                      q \in {ParsePath(p)} } : TRUE

\* the files the paths of the events lead to
ResolvedEventPaths == [p \in EventPaths \cup {P_xpng} |-> WalkPath(p)]

Resolve(p) ==
    IF p \in DOMAIN ResolvedEventPaths THEN ResolvedEventPaths[p] ELSE WalkPath(p)

\* the file at path p at time t, if any: the file system finds a file under
\* any spelling of its path
FileOf(p, t) ==
    IF Resolve(p) \in DOMAIN script THEN FileAt(script[Resolve(p)], t) ELSE NoFile

FileNow(p) == FileOf(p, now)

\* path.stat(), line 74: the file as it is when the call is made
Stat(p) == FileOf(p, now)

\* how long one time.sleep(0.08) can take: 80 ms, or longer
SleepChoicesShort == {8}

SleepChoices == {PollIntervalMs, PollIntervalMs + MaxOversleepMs}

StartTimes == {0, 60}

(***************************************************************************)
(* The polling algorithm of the specification (spec.md, section 4), kept   *)
(* apart from the code's: its own deadline, its own last_size with a       *)
(* sentinel that is no size, its own verdicts.  It is given the clock and  *)
(* the stat outcome of each iteration the code makes.                      *)
(***************************************************************************)

\* last_size = SENTINEL (no prior reading)
SENTINEL == [known |-> FALSE, size |-> 0]

\* deadline = now() + timeout; last_size = SENTINEL
SpecStart(t) ==
    [deadline |-> t + TimeoutMs, last_size |-> SENTINEL, stats |-> 0, sleeps |-> 0,
     verdict |-> "None"]

\* one iteration of the loop at clock t, where stat would give the file f
SpecIteration(r, t, f) ==
    IF r.verdict # "None" THEN r
    ELSE IF t >= r.deadline THEN [r EXCEPT !.verdict = "TimedOutAssumedStable"]
    ELSE IF ~f.exists
         THEN [r EXCEPT !.stats = @ + 1, !.verdict = "VanishedBeforeStable"]
    ELSE IF f.size > 0 /\ r.last_size.known /\ f.size = r.last_size.size
         THEN [r EXCEPT !.stats = @ + 1, !.verdict = "Stable"]
    ELSE [r EXCEPT !.stats = @ + 1, !.sleeps = @ + 1,
                   !.last_size = [known |-> TRUE, size |-> f.size]]

\* current_file = None
NoPath == <<>>

\* _press_pos = None
NoPos == <<>>

\* PreviewPopup.__init__: nothing shown, no animation yet, the timer not started
InitPreviewPopup ==
    [current_file |-> NoPath,
     visible |-> FALSE,
     is_animating_out |-> FALSE,
     slide_in_animation |-> "None",
     slide_out_animation |-> "None",
     slide_in_left |-> 0,
     slide_out_left |-> 0,
     hide_timer |-> [active |-> FALSE, left |-> 0],
     press_pos |-> NoPos,
     drag_started |-> FALSE]

\* TrayApp.__init__
InitUi ==
    /\ paused = FALSE
    /\ delivered = 0
    /\ popup = InitPreviewPopup
    /\ pointer = [left |-> FALSE, right |-> FALSE, middle |-> FALSE, dragging |-> FALSE]
    /\ uiLog = [shown |-> <<>>, dropped |-> <<>>, sinceShow |-> 0, cancelled |-> FALSE,
                drags |-> 0, opens |-> 0, dragDist |-> 0, foreign |-> FALSE]

InitHandler ==
    /\ InitUi
    /\ queue = <<>>
    /\ waited = 0
    /\ ref = SpecStart(0)
    /\ pc = "idle"
    /\ event = NoEvent
    /\ path = <<>>
    /\ start = 0
    /\ last_size = NoReading
    /\ emitted = <<>>
    /\ evIndex = 0
    /\ checkEv = 0
    /\ checks = 0
    /\ returns = 0
    /\ readings = <<>>
    /\ verdict = "None"
    /\ result = FALSE

\* the watcher: several events, files with short scripts on both paths
Init ==
    /\ script \in [FilePaths -> Scripts(WatchOps, MaxOpsWatch)]
    /\ feed = RawEvents
    /\ sleepMs = PollIntervalMs
    /\ now = 0
    /\ pending = MaxEvents
    /\ InitHandler

\* one stability check: one event, one file with a script of at most n operations
InitCheck(n) ==
    /\ \E s \in Scripts(Ops, n) :
          script = [p \in FilePaths |-> IF p = P_fooPNG THEN s ELSE <<>>]
    /\ feed = StabilityEvents
    /\ sleepMs \in SleepChoices
    /\ now \in StartTimes
    /\ pending = 1
    /\ InitHandler

InitStability == InitCheck(MaxOps)

\* the events of SpecPopup: screenshots on two paths
PopupEvents ==
    [event_type : {"created"}, is_directory : {FALSE}, src_path : ScreenshotPaths]

\* the whole program: complete screenshots appear, the user pauses, clicks, drags
InitPopup ==
    /\ script = [p \in FilePaths |->
                   <<[at |-> 0, op |-> "write", size |-> 500, every |-> 0]>>]
    /\ feed = PopupEvents
    /\ sleepMs = PollIntervalMs
    /\ now = 0
    /\ pending = MaxReady
    /\ InitHandler

\* the events of SpecQueue: one of each kind of outcome
QueueEvents == { e \in StabilityEvents : ~e.is_directory }

\* the scripts of SpecQueue: no file, a complete file, an empty file
QueueScripts ==
    { s \in Scripts(WatchOps, 1) : \A i \in 1..Len(s) : s[i].at = 0 /\ s[i].op = "write" }

\* the watcher with bursts of events for one path
InitQueue ==
    /\ \E s \in QueueScripts :
          script = [p \in FilePaths |-> IF p = P_fooPNG THEN s ELSE <<>>]
    /\ feed = QueueEvents
    /\ sleepMs = PollIntervalMs
    /\ now = 0
    /\ pending = MaxQueued
    /\ InitHandler

InitFair == InitCheck(MaxOpsFair)

(***************************************************************************)
(* _wait_for_stable_file, lines 68-81                                      *)
(***************************************************************************)

\* line 72: time.time() - start < timeout_s
InTimeLate(t, st) == t - st < TimeoutMs + PollIntervalMs

InTime(t, st) == t - st < TimeoutMs

\* line 75: size > 0 and size == last_size
IsStableNoPrevious(size, last) == size > 0

IsStableZeroToo(size, last) == size = last

IsStableAnyPrevious(size, last) == size > 0 /\ last > 0

IsStable(size, last) == size > 0 /\ size = last

\* line 77: last_size = size
RememberNothing(size, last) == last

Remember(size, last) == size

\* line 71: last_size = -1 at every call, whatever value prev an earlier call left
FirstLastSizeKept(prev) == prev

FirstLastSize(prev) == NoReading

\* the value each return statement gives: line 76, line 79, line 81
WaitResultTimeoutDrops(v) == v = "Stable"

WaitResultVanishedTrue(v) == TRUE

WaitResult(v) ==
    CASE v = "Stable"   -> TRUE
      [] v = "Vanished" -> FALSE
      [] v = "TimedOut" -> TRUE

(***************************************************************************)
(* on_created, lines 57-66                                                 *)
(***************************************************************************)

\* lines 58-62: neither of the two early returns is taken
PassesFilter(e) == ~e.is_directory /\ IsImage(e.src_path)

\* what bridge.file_created.emit(str(path)) sends; ev, via, src and file record
\* the event handled, the return taken and the file at the path at that time
ReadyEvent(v) ==
    [path |-> PathStr(path), ev |-> checkEv, via |-> v, src |-> event.src_path,
     file |-> FileNow(path)]

\* lines 65-66: the emissions after the check has returned r
AfterCheckTwice(v, r) == IF r THEN emitted \o <<ReadyEvent(v), ReadyEvent(v)>> ELSE emitted

AfterCheckAlways(v, r) == Append(emitted, ReadyEvent(v))

AfterCheckUnlessPaused(v, r) ==
    IF r /\ ~paused THEN Append(emitted, ReadyEvent(v)) ELSE emitted

AfterCheck(v, r) == IF r THEN Append(emitted, ReadyEvent(v)) ELSE emitted

\* what the emitter thread puts on the observer's queue for event e; n numbers
\* the events in the order they were raised, at is the time e was raised
Queued(e) == [e |-> e, n |-> evIndex + Len(queue) + 1, at |-> now]

\* the directory raises event e while the observer thread has nothing to do
queue_event(e) ==
    /\ pending > 0
    /\ pc = "idle"
    /\ queue = <<>>
    /\ pending' = pending - 1
    /\ queue' = Append(queue, Queued(e))
    /\ UNCHANGED <<envVars, uiVars, now, pc, event, path, start, last_size, emitted,
                   evIndex, waited, ref, checkEv, checks, returns, readings,
                   verdict, result>>

\* the directory raises event e right behind the previous one: the observer
\* thread is idle with events waiting, or has just entered a check
queue_event_busy(e) ==
    /\ pending > 0
    /\ \/ pc = "idle" /\ queue # <<>>
       \/ pc = "loop" /\ readings = <<>>
    /\ pending' = pending - 1
    /\ queue' = Append(queue, Queued(e))
    /\ UNCHANGED <<envVars, uiVars, now, pc, event, path, start, last_size, emitted,
                   evIndex, waited, ref, checkEv, checks, returns, readings,
                   verdict, result>>

\* the observer thread is one thread: it dispatches the next event only after
\* the handler has returned from the previous one
CanDispatchAnytime == TRUE

CanDispatch == pc = "idle"

\* watchdog takes the next event off its queue and dispatches it
Delivered(e) ==
    /\ CanDispatch
    /\ queue # <<>>
    /\ e = Head(queue).e
    /\ queue' = Tail(queue)
    /\ evIndex' = evIndex + 1
    /\ waited' = now - Head(queue).at
    /\ UNCHANGED pending

\* FileSystemEventHandler.dispatch calls the handler's method for the type of
\* the event; ScreenshotHandler overrides on_created only
CallsOnCreatedOrMoved(e) == e.event_type \in {"created", "moved"}

CallsOnCreated(e) == e.event_type = "created"

\* an event of another type: the inherited on_modified, on_deleted or on_moved
\* does nothing
dispatch_other(e) ==
    /\ ~CallsOnCreated(e)
    /\ Delivered(e)
    /\ event' = e
    /\ UNCHANGED <<envVars, uiVars, now, pc, path, start, last_size, emitted, ref,
                   checkEv, checks, returns, readings, verdict, result>>

\* on_created returning at line 59 or line 62
on_created_ignored(e) ==
    /\ CallsOnCreated(e)
    /\ ~PassesFilter(e)
    /\ Delivered(e)
    /\ event' = e
    /\ UNCHANGED <<envVars, uiVars, now, pc, path, start, last_size, emitted, ref,
                   checkEv, checks, returns, readings, verdict, result>>

\* on_created reaching line 65 and entering _wait_for_stable_file (lines 70-71)
on_created_check(e) ==
    /\ CallsOnCreated(e)
    /\ PassesFilter(e)
    /\ Delivered(e)
    /\ event' = e
    /\ path' = e.src_path
    /\ start' = now
    /\ last_size' = FirstLastSize(last_size)
    /\ pc' = "loop"
    /\ checkEv' = evIndex + 1
    /\ checks' = checks + 1
    /\ readings' = <<>>
    /\ verdict' = "None"
    /\ result' = FALSE
    /\ ref' = SpecStart(now)
    /\ UNCHANGED <<envVars, uiVars, now, emitted, returns>>

\* _wait_for_stable_file returns through the statement v, and on_created ends
Return(v) ==
    /\ verdict' = v
    /\ result' = WaitResult(v)
    /\ emitted' = AfterCheck(v, WaitResult(v))
    /\ returns' = returns + 1
    /\ pc' = "idle"
    /\ UNCHANGED <<envVars, uiVars, now, pending, queue, event, path, start, last_size,
                   evIndex, waited, checkEv, checks>>

Reading(f) == [at |-> now, exists |-> f.exists, size |-> f.size]

\* the specification's algorithm makes its next iteration on the same clock
\* and the same stat outcome as the code's
SpecStep == ref' = SpecIteration(ref, now, Stat(path))

\* line 72 false, line 81
wait_timeout ==
    /\ pc = "loop"
    /\ ~InTime(now, start)
    /\ Return("TimedOut")
    /\ SpecStep
    /\ UNCHANGED readings

\* line 74 raises FileNotFoundError, lines 78-79
wait_vanished ==
    /\ pc = "loop"
    /\ InTime(now, start)
    /\ ~Stat(path).exists
    /\ readings' = Append(readings, Reading(Stat(path)))
    /\ SpecStep
    /\ Return("Vanished")

\* lines 74-76
wait_stable ==
    /\ pc = "loop"
    /\ InTime(now, start)
    /\ Stat(path).exists
    /\ IsStable(Stat(path).size, last_size)
    /\ readings' = Append(readings, Reading(Stat(path)))
    /\ SpecStep
    /\ Return("Stable")

\* lines 74-77, up to the sleep of line 80
wait_continue ==
    /\ pc = "loop"
    /\ InTime(now, start)
    /\ Stat(path).exists
    /\ ~IsStable(Stat(path).size, last_size)
    /\ last_size' = Remember(Stat(path).size, last_size)
    /\ readings' = Append(readings, Reading(Stat(path)))
    /\ SpecStep
    /\ pc' = "sleep"
    /\ UNCHANGED <<envVars, uiVars, now, pending, queue, event, path, start, emitted,
                   evIndex, waited, checkEv, checks, returns, verdict, result>>

\* line 80: time.sleep(0.08) returns
time_sleep ==
    /\ pc = "sleep"
    /\ now' = now + sleepMs
    /\ pc' = "loop"
    /\ UNCHANGED <<envVars, uiVars, pending, queue, event, path, start, last_size, emitted,
                   evIndex, waited, ref, checkEv, checks, returns, readings, verdict,
                   result>>

\* the steps of the observer thread inside on_created
HandlerStep == wait_timeout \/ wait_vanished \/ wait_stable \/ wait_continue \/ time_sleep

Next ==
    \/ \E e \in feed : queue_event(e)
    \/ \E e \in feed : dispatch_other(e)
    \/ \E e \in feed : on_created_ignored(e)
    \/ \E e \in feed : on_created_check(e)
    \/ wait_timeout
    \/ wait_vanished
    \/ wait_stable
    \/ wait_continue
    \/ time_sleep

Spec == Init /\ [][Next]_vars

SpecStability == InitStability /\ [][Next]_vars

(***************************************************************************)
(* PreviewPopup, lines 141-235: show_preview, the animations, hide          *)
(***************************************************************************)

\* the interval of hide_timer.start, line 204, in ms
PopupMs == PopupSeconds * 1000

\* QAbstractAnimation.stop() where the code calls it: if state() == Running
StopIfRunning(state) == IF state = "Running" THEN "Stopped" ELSE state

\* line 204: QTimer.start(msec) starts the timer, or restarts one that runs
RestartTimerIfIdle(t) == IF t.active THEN t ELSE [active |-> TRUE, left |-> PopupMs]

RestartTimer(t) == [active |-> TRUE, left |-> PopupMs]

\* _animate_in, lines 169-204
AnimateIn(p) ==
    [p EXCEPT !.slide_out_animation = StopIfRunning(@),
              !.slide_out_left = 0,
              !.is_animating_out = FALSE,
              !.visible = TRUE,
              !.slide_in_animation = "Running",
              !.slide_in_left = SlideInMs,
              !.hide_timer = RestartTimer(@)]

\* show_preview, lines 141-167
ShowPreview(p, file_path) == AnimateIn([p EXCEPT !.current_file = file_path])

\* _animate_out, lines 206-228
AnimateOut(p) ==
    IF p.is_animating_out
    THEN p
    ELSE [p EXCEPT !.is_animating_out = TRUE,
                   !.slide_in_animation = StopIfRunning(@),
                   !.slide_in_left = 0,
                   !.slide_out_animation = "Running",
                   !.slide_out_left = SlideOutMs]

\* _hide_after_animation, lines 230-232
HideAfterAnimationFlagKept(p) == [p EXCEPT !.visible = FALSE]

HideAfterAnimation(p) == [p EXCEPT !.visible = FALSE, !.is_animating_out = FALSE]

\* hide, lines 234-235
Hide(p) == AnimateOut(p)

(***************************************************************************)
(* TrayApp, lines 337-348                                                  *)
(***************************************************************************)

\* on_new_file, lines 344-348: what becomes of the popup
OnNewFileAlways(p, flag, file_path) == ShowPreview(p, file_path)

OnNewFile(p, flag, file_path) == IF flag THEN p ELSE ShowPreview(p, file_path)

\* toggle_pause, lines 337-342
toggle_pause ==
    /\ paused' = ~paused
    /\ UNCHANGED <<watcherVars, delivered, popup, pointer, uiLog>>

\* the next emission of file_created reaches its slot on the UI thread
on_new_file ==
    /\ delivered < Len(emitted)
    /\ delivered' = delivered + 1
    /\ popup' = OnNewFile(popup, paused, emitted[delivered + 1].path)
    /\ uiLog' = IF paused
                THEN [uiLog EXCEPT !.dropped = Append(@, emitted[delivered + 1].ev)]
                ELSE [uiLog EXCEPT !.shown = Append(@, emitted[delivered + 1].ev),
                                   !.sinceShow = 0,
                                   !.cancelled = (popup.slide_out_animation = "Running")]
    /\ UNCHANGED <<watcherVars, paused, pointer>>

(***************************************************************************)
(* Time on the UI thread.  The timer and the running animations count down *)
(* together; what is due is handled before more time passes.  The clock of *)
(* the observer thread is not tied to it: the threads run at any relative  *)
(* speed.                                                                  *)
(***************************************************************************)

\* the time left of everything that is running
Countdowns(p) ==
    (IF p.slide_in_animation = "Running" THEN {p.slide_in_left} ELSE {})
    \cup (IF p.slide_out_animation = "Running" THEN {p.slide_out_left} ELSE {})
    \cup (IF p.hide_timer.active THEN {p.hide_timer.left} ELSE {})

NextDue(p) == CHOOSE d \in Countdowns(p) : \A c \in Countdowns(p) : d <= c

\* how far time moves in one step: to the next thing due, or one second
UiSteps == {1000}

Elapse(p, d) ==
    [p EXCEPT !.slide_in_left = IF p.slide_in_animation = "Running" THEN @ - d ELSE @,
              !.slide_out_left = IF p.slide_out_animation = "Running" THEN @ - d ELSE @,
              !.hide_timer = IF @.active THEN [@ EXCEPT !.left = @ - d] ELSE @]

ui_tick(d) ==
    /\ Countdowns(popup) # {}
    /\ 0 \notin Countdowns(popup)
    /\ d = NextDue(popup) \/ (d \in UiSteps /\ d < NextDue(popup))
    /\ popup' = Elapse(popup, d)
    /\ uiLog' = [uiLog EXCEPT !.sinceShow = IF @ + d > PopupMs THEN PopupMs ELSE @ + d]
    /\ UNCHANGED <<watcherVars, paused, delivered, pointer>>

\* hide_timer.timeout, connected to hide (line 131); the timer is single-shot
hide_timer_timeout ==
    /\ popup.hide_timer.active
    /\ popup.hide_timer.left = 0
    /\ popup' = Hide([popup EXCEPT !.hide_timer = [active |-> FALSE, left |-> 0]])
    /\ UNCHANGED <<watcherVars, paused, delivered, pointer, uiLog>>

\* the slide-in animation reaches its end; nothing is connected to it
slide_in_finished ==
    /\ popup.slide_in_animation = "Running"
    /\ popup.slide_in_left = 0
    /\ popup' = [popup EXCEPT !.slide_in_animation = "Stopped"]
    /\ UNCHANGED <<watcherVars, paused, delivered, pointer, uiLog>>

\* the slide-out animation reaches its end: finished, connected to
\* _hide_after_animation (line 227)
slide_out_finished ==
    /\ popup.slide_out_animation = "Running"
    /\ popup.slide_out_left = 0
    /\ popup' = HideAfterAnimation([popup EXCEPT !.slide_out_animation = "Stopped"])
    /\ UNCHANGED <<watcherVars, paused, delivered, pointer, uiLog>>

(***************************************************************************)
(* Mouse handling, lines 246-298.  A point is <<x, y>>.                    *)
(***************************************************************************)

Abs(x) == IF x < 0 THEN -x ELSE x

\* (a - b).manhattanLength()
ManhattanLength(a, b) == Abs(a[1] - b[1]) + Abs(a[2] - b[2])

\* where the pointer is pressed and where it moves to
PressPoints == {<<10, 10>>}

MovePoints == {<<10, 10>>, <<13, 14>>, <<15, 13>>, <<10, 2>>, <<30, 10>>}

\* line 266: dist < 8
TooCloseBelowSeven(dist) == dist < DragDistance - 1

TooClose(dist) == dist < DragDistance

\* the widget gets mouse events while it is shown and no drag is in progress
GetsMouseEvents == popup.visible /\ ~pointer.dragging

\* mousePressEvent with the left button, lines 247-249
mousePressEvent_left(pos) ==
    /\ GetsMouseEvents
    /\ ~pointer.left
    /\ pointer' = [pointer EXCEPT !.left = TRUE]
    /\ popup' = [popup EXCEPT !.press_pos = pos, !.drag_started = FALSE]
    /\ uiLog' = [uiLog EXCEPT !.drags = 0, !.opens = 0, !.dragDist = 0,
                              !.foreign = FALSE]
    /\ UNCHANGED <<watcherVars, paused, delivered>>

\* mousePressEvent with the right button, lines 250-251
mousePressEvent_right ==
    /\ GetsMouseEvents
    /\ ~pointer.right
    /\ pointer' = [pointer EXCEPT !.right = TRUE]
    /\ popup' = Hide(popup)
    /\ UNCHANGED <<watcherVars, paused, delivered, uiLog>>

\* mousePressEvent with a button that is neither the left nor the right one
\* (the middle one), lines 246-252: no branch is taken
mousePressEvent_other ==
    /\ GetsMouseEvents
    /\ ~pointer.middle
    /\ pointer' = [pointer EXCEPT !.middle = TRUE]
    /\ UNCHANGED <<watcherVars, paused, delivered, popup, uiLog>>

\* mouseMoveEvent reaches line 269 and starts a drag
StartsDrag(p, leftHeld, pos) ==
    /\ p.current_file # NoPath
    /\ p.press_pos # NoPos
    /\ leftHeld
    /\ ~TooClose(ManhattanLength(pos, p.press_pos))
    /\ ~p.drag_started

\* mouseMoveEvent, lines 254-288; drag.exec (line 286) returns in drag_end
mouseMoveEvent(pos) ==
    /\ GetsMouseEvents
    /\ IF StartsDrag(popup, pointer.left, pos)
       THEN /\ popup' = [popup EXCEPT !.drag_started = TRUE]
            /\ pointer' = [pointer EXCEPT !.dragging = TRUE]
            /\ uiLog' = [uiLog EXCEPT !.drags = @ + 1,
                                      !.dragDist = ManhattanLength(pos, popup.press_pos)]
       ELSE UNCHANGED <<popup, pointer, uiLog>>
    /\ UNCHANGED <<watcherVars, paused, delivered>>

\* drag.exec returns: the file was dropped (the button went up, and the
\* widget gets no release event), or the drag was cancelled with the button
\* still held
drag_end(outcome) ==
    /\ pointer.dragging
    /\ pointer' = [pointer EXCEPT !.dragging = FALSE,
                                  !.left = IF outcome = "dropped" THEN FALSE ELSE @]
    /\ UNCHANGED <<watcherVars, paused, delivered, popup, uiLog>>

\* lines 291-293: the release is a click
IsClick(p, button) == button = "Left" /\ p.current_file # NoPath /\ ~p.drag_started

\* mouseReleaseEvent, lines 290-298: what becomes of the popup
MouseRelease(p, button) ==
    [(IF IsClick(p, button) THEN Hide(p) ELSE p)
        EXCEPT !.press_pos = NoPos, !.drag_started = FALSE]

\* mouseReleaseEvent with the left button
mouseReleaseEvent_left ==
    /\ GetsMouseEvents
    /\ pointer.left
    /\ pointer' = [pointer EXCEPT !.left = FALSE]
    /\ popup' = MouseRelease(popup, "Left")
    /\ uiLog' = IF IsClick(popup, "Left") THEN [uiLog EXCEPT !.opens = @ + 1] ELSE uiLog
    /\ UNCHANGED <<watcherVars, paused, delivered>>

\* mouseReleaseEvent with the right button
mouseReleaseEvent_right ==
    /\ GetsMouseEvents
    /\ pointer.right
    /\ pointer' = [pointer EXCEPT !.right = FALSE]
    /\ popup' = MouseRelease(popup, "Right")
    /\ uiLog' = [uiLog EXCEPT !.foreign = @ \/ pointer.left]
    /\ UNCHANGED <<watcherVars, paused, delivered>>

\* mouseReleaseEvent with a button that is neither the left nor the right
\* one: lines 296-297 act for every button
mouseReleaseEvent_other ==
    /\ GetsMouseEvents
    /\ pointer.middle
    /\ pointer' = [pointer EXCEPT !.middle = FALSE]
    /\ popup' = MouseRelease(popup, "Middle")
    /\ uiLog' = [uiLog EXCEPT !.foreign = @ \/ pointer.left]
    /\ UNCHANGED <<watcherVars, paused, delivered>>

\* a button goes up after the popup has gone: the widget gets no event
release_unseen ==
    /\ ~popup.visible
    /\ ~pointer.dragging
    /\ pointer.left \/ pointer.right \/ pointer.middle
    /\ pointer' = [pointer EXCEPT !.left = FALSE, !.right = FALSE, !.middle = FALSE]
    /\ UNCHANGED <<watcherVars, paused, delivered, popup, uiLog>>

\* the whole program where every new file is a complete screenshot
NextPopup ==
    \/ \E e \in feed : queue_event(e)
    \/ \E e \in feed : on_created_check(e)
    \/ wait_stable
    \/ wait_continue
    \/ time_sleep
    \/ toggle_pause
    \/ on_new_file
    \/ \E d \in UiSteps \cup Countdowns(popup) : ui_tick(d)
    \/ hide_timer_timeout
    \/ slide_in_finished
    \/ slide_out_finished
    \/ \E pos \in PressPoints : mousePressEvent_left(pos)
    \/ mousePressEvent_right
    \/ mousePressEvent_other
    \/ \E pos \in MovePoints : mouseMoveEvent(pos)
    \/ \E outcome \in {"dropped", "cancelled"} : drag_end(outcome)
    \/ mouseReleaseEvent_left
    \/ mouseReleaseEvent_right
    \/ mouseReleaseEvent_other
    \/ release_unseen

SpecPopup == InitPopup /\ [][NextPopup]_vars

\* a complete screenshot
CompleteFile == <<[at |-> 0, op |-> "write", size |-> 500, every |-> 0]>>

\* files that make the check return each way: a complete one, one written in
\* two chunks, an empty one that is removed, two that keep growing
WatchedScripts ==
    { CompleteFile,
      <<[at |-> 0, op |-> "write", size |-> 50, every |-> 0],
        [at |-> 150, op |-> "write", size |-> 500, every |-> 0]>>,
      <<[at |-> 0, op |-> "write", size |-> 0, every |-> 0],
        [at |-> 150, op |-> "delete", size |-> 0, every |-> 0]>>,
      <<[at |-> 0, op |-> "stream", size |-> 50, every |-> 80]>>,
      <<[at |-> 0, op |-> "stream", size |-> 50, every |-> 100]>> }

\* a spelling of the path of the first screenshot that has no suffix
P_fooPNGup == P_fooPNG \o <<"\\", "x", "\\", ".", ".">>

\* the screenshots, and two events on_created turns away although a file is
\* found under their path: a directory event, and a name without a suffix
WatcherUiEvents ==
    PopupEvents
    \cup [event_type : {"created"}, is_directory : {TRUE}, src_path : {P_fooPNG}]
    \cup [event_type : {"created"}, is_directory : {FALSE}, src_path : {P_fooPNGup}]

InitWatcherUi ==
    /\ script \in { [p \in FilePaths |-> IF p = P_fooPNG THEN s ELSE CompleteFile] :
                       s \in WatchedScripts }
    /\ feed = WatcherUiEvents
    /\ sleepMs \in SleepChoices
    /\ now = 0
    /\ pending = MaxReady
    /\ InitHandler

\* the observer thread beside the UI thread, the pointer left alone: the
\* pause toggle, the delivery of ReadyEvents, the timer and the animations
NextWatcherUi ==
    \/ \E e \in feed : queue_event(e)
    \/ \E e \in feed : on_created_ignored(e)
    \/ \E e \in feed : on_created_check(e)
    \/ wait_timeout
    \/ wait_vanished
    \/ wait_stable
    \/ wait_continue
    \/ time_sleep
    \/ toggle_pause
    \/ on_new_file
    \/ \E d \in UiSteps \cup Countdowns(popup) : ui_tick(d)
    \/ hide_timer_timeout
    \/ slide_in_finished
    \/ slide_out_finished

SpecWatcherUi == InitWatcherUi /\ [][NextWatcherUi]_vars

\* the watcher with events raised in bursts
NextQueue ==
    \/ Next
    \/ \E e \in feed : queue_event_busy(e)

SpecQueue == InitQueue /\ [][NextQueue]_vars

\* the observer thread, once inside on_created, keeps running
FairStability == InitFair /\ [][Next]_vars /\ WF_vars(HandlerStep)

(***************************************************************************)
(* Properties                                                              *)
(***************************************************************************)

\* the emissions made for the event numbered k
EmittedFor(k) == { i \in 1..Len(emitted) : emitted[i].ev = k }

\* the number of stat calls of the latest check
Polls == Len(readings)

\* C1: a check returns through the stable return (line 76) only before the
\* deadline and when its last two readings are sizes of an existing file that
\* are equal and non-zero; so never on its first reading, whatever that
\* reading is.
C1_StableNeedsTwoEqualReadings ==
    verdict = "Stable" =>
        /\ result = TRUE
        /\ Polls >= 2
        /\ readings[Polls].at - start < TimeoutMs
        /\ readings[Polls].exists /\ readings[Polls - 1].exists
        /\ readings[Polls].size = readings[Polls - 1].size
        /\ readings[Polls].size > 0

\* C1 witness: a check has returned Stable on its second reading
C1_Witness == verdict = "Stable" /\ Polls = 2 /\ readings[1].size = 500

\* C4: when a stat of the check raises FileNotFoundError, that is its last
\* stat, the check returns False through line 79 and no ReadyEvent is emitted
\* for the event; a file absent at the first stat is never reported Stable.
C4_NotFoundEndsCheckSilently ==
    \A i \in 1..Polls :
        ~readings[i].exists =>
            /\ i = Polls
            /\ verdict = "Vanished"
            /\ result = FALSE
            /\ EmittedFor(checkEv) = {}

\* C4 witness: a file that was read once with content and was gone at the next poll
C4_Witness ==
    /\ verdict = "Vanished"
    /\ Polls = 2
    /\ readings[1].size > 0
    /\ pc = "idle"

\* C5: a check all of whose readings are 0 never returns Stable; when it
\* returns True it is through the timeout return, at or after the deadline.
C5_ZeroByteNeverStable ==
    (\A i \in 1..Polls : readings[i].exists /\ readings[i].size = 0) =>
        /\ verdict # "Stable"
        /\ result => (verdict = "TimedOut" /\ now - start >= TimeoutMs)

\* C5 witness: a file read as empty at every poll until the deadline
C5_Witness ==
    /\ verdict = "TimedOut"
    /\ Polls >= 2
    /\ \A i \in 1..Polls : readings[i].exists /\ readings[i].size = 0

\* the script of the file at path p
ScriptOf(p) == IF Resolve(p) \in DOMAIN script THEN script[Resolve(p)] ELSE <<>>

\* a file written in chunks: every operation is a write that makes it larger
WrittenInChunks(s) ==
    /\ Len(s) >= 2
    /\ \A i \in 1..Len(s) : s[i].op = "write"
    /\ \A i \in 1..(Len(s) - 1) : s[i].size < s[i+1].size

\* the size such a file ends with
FinalSize(s) == s[Len(s)].size

\* no two successive chunks are a poll interval or more apart
NoLongPause(s) == \A i \in 1..(Len(s) - 1) : s[i+1].at - s[i].at < PollIntervalMs

\* C2 as stated: for a file written in chunks, a ReadyEvent emitted through
\* the stable return finds the file at its final size.
C2_StableOnlyAtFinalSize ==
    \A i \in 1..Len(emitted) :
        (emitted[i].via = "Stable" /\ WrittenInChunks(ScriptOf(emitted[i].src)))
            => emitted[i].file.size = FinalSize(ScriptOf(emitted[i].src))

\* the last two polls of the latest check both fall in the pause between
\* chunk k and chunk k+1 of script s, a pause of a poll interval or longer
LastPollsInPause(s, k) ==
    /\ Polls >= 2
    /\ s[k+1].at - s[k].at >= PollIntervalMs
    /\ s[k].at <= readings[Polls - 1].at
    /\ readings[Polls].at < s[k+1].at

\* the files whose successive chunks are less than one poll interval apart
\* (the writer never pauses for 80 ms or more) are stable at their final size
StableAtFinalSizeWithoutPause ==
    \A i \in 1..Len(emitted) :
        (/\ emitted[i].via = "Stable"
         /\ WrittenInChunks(ScriptOf(emitted[i].src))
         /\ NoLongPause(ScriptOf(emitted[i].src)))
            => emitted[i].file.size = FinalSize(ScriptOf(emitted[i].src))

\* Stable is declared at an intermediate size only when the last two polls
\* both fall in a pause of the writer, and then at the size of the chunk
\* written before that pause
IntermediateOnlyInPause ==
    \A i \in 1..Len(emitted) :
        (/\ emitted[i].via = "Stable"
         /\ emitted[i].ev = checkEv
         /\ WrittenInChunks(ScriptOf(emitted[i].src))
         /\ emitted[i].file.size # FinalSize(ScriptOf(emitted[i].src)))
            => \E k \in 1..(Len(ScriptOf(emitted[i].src)) - 1) :
                  /\ LastPollsInPause(ScriptOf(emitted[i].src), k)
                  /\ emitted[i].file.size = ScriptOf(emitted[i].src)[k].size

\* C2 amended: for a file written in chunks whose successive chunks are less
\* than one poll interval apart, a ReadyEvent emitted through the stable
\* return finds the file at its final size; for any file written in chunks,
\* the stable return finds an intermediate size only when the last two polls
\* both fell in one pause of a poll interval or longer between two chunks.
C2_StableAtFinalSizeWithoutPause ==
    /\ StableAtFinalSizeWithoutPause
    /\ IntermediateOnlyInPause

\* a pause of a poll interval or longer does not by itself end the check at
\* an intermediate size: chunks of 50 bytes at 0 ms and 500 bytes at 80 ms,
\* polled at 0, 80 and 160 ms, are declared stable at 500 bytes
StableAtFinalSizeDespitePause ==
    /\ Len(emitted) = 1
    /\ emitted[1].via = "Stable"
    /\ WrittenInChunks(ScriptOf(emitted[1].src))
    /\ ~NoLongPause(ScriptOf(emitted[1].src))
    /\ emitted[1].file.size = FinalSize(ScriptOf(emitted[1].src))

\* the example of the claim: 50 bytes at 0 ms, 500 bytes at 150 ms, polled at
\* 0 and 80 ms, is declared stable at 50 bytes
StableAtIntermediateSize ==
    /\ Len(emitted) = 1
    /\ emitted[1].via = "Stable"
    /\ Len(ScriptOf(emitted[1].src)) = 2
    /\ WrittenInChunks(ScriptOf(emitted[1].src))
    /\ ScriptOf(emitted[1].src)[1].at = 0
    /\ ScriptOf(emitted[1].src)[2].at = 150
    /\ start = 0
    /\ emitted[1].file.size = 50

\* C2 witness: a file written in two chunks 50 ms apart was read at 50 bytes,
\* then declared stable at its final 500 bytes
C2_Witness ==
    /\ Len(emitted) = 1
    /\ emitted[1].via = "Stable"
    /\ WrittenInChunks(ScriptOf(emitted[1].src))
    /\ NoLongPause(ScriptOf(emitted[1].src))
    /\ readings[1].size = 50
    /\ emitted[1].file.size = 500

\* C3 as stated: no two emissions are for the same physical file (the same
\* path and the same creation of a file at that path).
C3_OncePerPhysicalFile ==
    \A i, j \in 1..Len(emitted) :
        (/\ emitted[i].src = emitted[j].src
         /\ emitted[i].file.exists /\ emitted[j].file.exists
         /\ emitted[i].file.fid = emitted[j].file.fid)
            => i = j

\* C3 amended: the signal is emitted at most once per event delivered to the
\* watcher, and only for events that started a check.
C3_OncePerEvent ==
    /\ \A i, j \in 1..Len(emitted) : emitted[i].ev = emitted[j].ev => i = j
    /\ \A i \in 1..Len(emitted) : emitted[i].ev \in 1..evIndex
    /\ Len(emitted) <= checks

\* C3 witness: two events for one physical file have each been answered with
\* one emission
C3_Witness ==
    /\ Len(emitted) = 2
    /\ emitted[1].src = emitted[2].src
    /\ emitted[1].file.exists /\ emitted[2].file.exists
    /\ emitted[1].file.fid = emitted[2].file.fid
    /\ emitted[1].ev # emitted[2].ev

\* a zero-byte placeholder that is later deleted or renamed away
Placeholder(s) ==
    /\ Len(s) = 2
    /\ s[1].op = "write" /\ s[1].size = 0
    /\ s[2].op = "delete"

\* C6 as stated: no ReadyEvent is ever emitted for a placeholder.
C6_PlaceholderNeverReady ==
    \A i \in 1..Len(emitted) : ~Placeholder(ScriptOf(emitted[i].src))

\* C6 amended: a check of a placeholder that exists when the check starts
\* emits no ReadyEvent exactly when one of its polls is taken at or after the
\* removal; when every poll before the deadline precedes the removal, the
\* check times out and the ReadyEvent is emitted.
C6_PlaceholderReadyOnlyByTimeout ==
    (/\ pc = "idle" /\ checks > 0
     /\ Placeholder(ScriptOf(path))
     /\ ScriptOf(path)[1].at <= start)
        => /\ (EmittedFor(checkEv) = {}) <=>
                  (\E i \in 1..Polls : readings[i].at >= ScriptOf(path)[2].at)
           /\ \A i \in EmittedFor(checkEv) : emitted[i].via = "TimedOut"

\* C6 witness: a placeholder read as empty, then found gone at a later poll
C6_Witness ==
    /\ pc = "idle" /\ checks > 0
    /\ Placeholder(ScriptOf(path))
    /\ Polls >= 2
    /\ readings[1].exists /\ readings[1].size = 0
    /\ verdict = "Vanished"
    /\ emitted = <<>>

\* a file that is being appended to from before the check started and without
\* end: the last operation of its script is a stream begun by time t
KeepsGrowing(s, t) ==
    /\ Len(s) >= 1
    /\ s[Len(s)].op = "stream"
    /\ s[Len(s)].at <= t

\* the latest check has returned and was of a file that keeps growing
GrowingFileChecked ==
    /\ pc = "idle" /\ checks > 0
    /\ KeepsGrowing(ScriptOf(path), start)

\* C7 as stated: the check of a file that keeps growing returns through the
\* timeout return and a ReadyEvent is emitted.
C7_GrowingFileTimesOut ==
    GrowingFileChecked => (verdict = "TimedOut" /\ EmittedFor(checkEv) # {})

\* the time between two appends to a file that keeps growing
GrowthPeriod(s) == s[Len(s)].every

\* the file grew between every two successive polls of the latest check
GrewBetweenAllPolls ==
    \A i \in 1..(Polls - 1) : readings[i].size < readings[i+1].size

\* the last two polls of the latest check read the same size: both fell
\* between two successive appends
LastPollsBetweenAppends ==
    /\ Polls >= 2
    /\ readings[Polls].size = readings[Polls - 1].size
    /\ readings[Polls].at - readings[Polls - 1].at < GrowthPeriod(ScriptOf(path))

\* C7 amended: the check of a file that keeps growing ends, returns True and
\* exactly one ReadyEvent is emitted.  It returns through the timeout return,
\* at or after the deadline, exactly when the file grew between every two
\* successive polls, which it does whenever it grows at least once per sleep
\* between polls; it returns Stable exactly when two successive polls fell
\* between two appends, which needs appends more than a poll interval apart.
C7_GrowingFileIsReported ==
    /\ [](GrowingFileChecked =>
            /\ result = TRUE
            /\ Cardinality(EmittedFor(checkEv)) = 1
            /\ verdict \in {"Stable", "TimedOut"}
            /\ verdict = "TimedOut" => now - start >= TimeoutMs
            /\ verdict = "TimedOut" <=> GrewBetweenAllPolls
            /\ verdict = "Stable" <=> LastPollsBetweenAppends
            /\ verdict = "Stable" => GrowthPeriod(ScriptOf(path)) > PollIntervalMs
            /\ GrowthPeriod(ScriptOf(path)) <= sleepMs => verdict = "TimedOut")
    /\ [](pc # "idle" => <>(pc = "idle"))

\* C7 witness: a file that grows every 100 ms, more slowly than the poll
\* interval, and is polled every 120 ms grew between every two polls and
\* has been reported through the timeout return
C7_Witness ==
    /\ GrowingFileChecked
    /\ verdict = "TimedOut"
    /\ GrowthPeriod(ScriptOf(path)) = 100
    /\ sleepMs = 120
    /\ Polls >= 2
    /\ GrewBetweenAllPolls
    /\ Len(emitted) = 1

\* a file that grows every 80 ms, once per poll interval, polled every 80 ms
\* has been reported through the timeout return
GrowingEveryPollIntervalTimesOut ==
    /\ GrowingFileChecked
    /\ verdict = "TimedOut"
    /\ GrowthPeriod(ScriptOf(path)) = PollIntervalMs
    /\ sleepMs = PollIntervalMs

\* a file that grows every 100 ms polled every 80 ms has been reported
\* through the stable return, before the deadline
GrowingSlowlyStableEarly ==
    /\ GrowingFileChecked
    /\ verdict = "Stable"
    /\ GrowthPeriod(ScriptOf(path)) = 100
    /\ now - start < TimeoutMs

\* a file whose size never decreases and ends at a non-zero size it keeps:
\* every operation is a write, each at least as large as the one before
GrowsToFinal(s) ==
    /\ Len(s) >= 1
    /\ \A i \in 1..Len(s) : s[i].op = "write"
    /\ \A i \in 1..(Len(s) - 1) : s[i].size <= s[i+1].size
    /\ FinalSize(s) > 0

\* the time at which such a file reaches its final size
FinalReachedAt(s) ==
    LET i == CHOOSE k \in 1..Len(s) :
                 /\ \A j \in k..Len(s) : s[j].size = FinalSize(s)
                 /\ k > 1 => s[k-1].size # FinalSize(s)
    IN  s[i].at

\* growth_time: how long after the start of the check the file reaches its final size
GrowthTime(s, t) == IF FinalReachedAt(s) > t THEN FinalReachedAt(s) - t ELSE 0

\* ceil(a / b)
CeilDiv(a, b) == (a + b - 1) \div b

\* ceil(growth_time / poll_interval) for the latest check
GrowthPolls == CeilDiv(GrowthTime(ScriptOf(path), start), PollIntervalMs)

\* the latest check has returned and was of a file that existed when the check
\* started and grows to a final size
FinalFileChecked ==
    /\ pc = "idle" /\ checks > 0
    /\ GrowsToFinal(ScriptOf(path))
    /\ ScriptOf(path)[1].at <= start

\* C8 as stated: the check of such a file returns Stable within
\* ceil(growth_time / poll_interval) + 1 polls.
C8_StableWithinGrowthPollsPlusOne ==
    FinalFileChecked => (verdict = "Stable" /\ Polls <= GrowthPolls + 1)

\* C8 amended: the check of such a file returns True: Stable within
\* ceil(growth_time / poll_interval) + 2 polls (the final size has to be read
\* twice), or, when the deadline passes before that many polls were taken,
\* the timeout verdict after at most ceil(growth_time / poll_interval) + 1
\* polls; it is Stable whenever that many sleeps end before the deadline.
C8_StableWithinGrowthPollsPlusTwo ==
    FinalFileChecked =>
        /\ result = TRUE
        /\ \/ verdict = "Stable" /\ Polls <= GrowthPolls + 2
           \/ /\ verdict = "TimedOut"
              /\ Polls <= GrowthPolls + 1
              /\ now - start >= TimeoutMs
        /\ (GrowthPolls + 1) * sleepMs < TimeoutMs => verdict = "Stable"

\* C8 witness: a file that reached its final size 50 ms into the check was
\* declared stable at the third poll, ceil(50 / 80) + 2
C8_Witness ==
    /\ FinalFileChecked
    /\ verdict = "Stable"
    /\ GrowthTime(ScriptOf(path), start) = 50
    /\ Polls = GrowthPolls + 2

\* the events of RawEvents that are creations of a file (not a directory)
\* whose name ends in one of the six accepted extensions, in any letter case
ExpectedToPass ==
    [event_type : {"created"}, is_directory : {FALSE},
     src_path : {P_fooPNG, P_cap1png, P_aJpg, P_ajpeg, P_abmp, P_agif, P_awebp}]

\* C9: the latest event handed to the handler started a stability check if
\* and only if it is the creation of a non-directory with an accepted
\* extension; any other event leaves the handler idle with no emission.
C9_FilterDecidesCheck ==
    event # NoEvent =>
        /\ (checkEv = evIndex) <=> (event \in ExpectedToPass)
        /\ event \notin ExpectedToPass => (pc = "idle" /\ EmittedFor(evIndex) = {})

\* C9 witness: foo.PNG has been checked, and the creation of the directory
\* x.png after it has been ignored
C9_Witness ==
    /\ evIndex = 2
    /\ checkEv = 1
    /\ path = P_fooPNG
    /\ event = [event_type |-> "created", is_directory |-> TRUE, src_path |-> P_xpng]
    /\ pc = "idle"

\* every check returns exactly once; once it has returned, there is one
\* ReadyEvent for its event when it returned through the stable or the
\* timeout return and none otherwise; none is emitted before it returns
OneVerdictPerCheck ==
    /\ returns = (IF pc = "idle" THEN checks ELSE checks - 1)
    /\ (pc = "idle" /\ checks > 0) =>
          /\ verdict \in {"Stable", "Vanished", "TimedOut"}
          /\ Cardinality(EmittedFor(checkEv)) =
                (IF verdict \in {"Stable", "TimedOut"} THEN 1 ELSE 0)
    /\ pc # "idle" => (verdict = "None" /\ EmittedFor(checkEv) = {})

\* a path spelled with backslashes only, none of them doubled (but for the
\* two that begin a UNC drive) or trailing, and without "." components
Canonical(s) ==
    /\ s # <<>>
    /\ \A i \in 1..Len(s) : s[i] # "/"
    /\ s[Len(s)] # "\\"
    /\ \A i \in 2..(Len(s) - 1) : ~(s[i] = "\\" /\ s[i+1] = "\\")
    /\ \A i \in 1..Len(s) :
          s[i] = "." => ~(/\ (i = 1 \/ s[i-1] = "\\")
                          /\ (i = Len(s) \/ s[i+1] = "\\"))

\* two spellings of one path: the same drive, root and components
SamePath(a, b) == Path(a) = Path(b)

\* C10 as written: the verdicts and emissions of OneVerdictPerCheck, and
\* every ReadyEvent carries the path of its creation event, character for
\* character.
C10_ReadyEventCarriesEventPath ==
    /\ OneVerdictPerCheck
    /\ \A i \in 1..Len(emitted) : emitted[i].path = emitted[i].src

\* C10: the verdicts and emissions of OneVerdictPerCheck, and every
\* ReadyEvent carries the canonical spelling of the path of its creation
\* event: the same drive, root and components, written with single
\* backslashes and without "." components; it is the event's path character
\* for character when that path is spelled so already.
C10_OneVerdictOneReadyEvent ==
    /\ OneVerdictPerCheck
    /\ \A i \in 1..Len(emitted) :
          /\ SamePath(emitted[i].path, emitted[i].src)
          /\ Canonical(emitted[i].path)
          /\ Canonical(emitted[i].src) => emitted[i].path = emitted[i].src
          /\ emitted[i].ev = checkEv => SamePath(emitted[i].path, path)

\* C10 witness: a first creation event, for .\cap1.png, was answered with one
\* ReadyEvent, which carries cap1.png; a second one with the vanished
\* verdict and none
C10_Witness ==
    /\ pc = "idle"
    /\ checks = 2
    /\ verdict = "Vanished"
    /\ Len(emitted) = 1
    /\ emitted[1].ev = 1
    /\ emitted[1].src = P_cap1png
    /\ emitted[1].path = N_cap1png

\* C11: every check starts afresh, whatever an earlier check (of the same path
\* or another) has left: before its first reading last_size is -1 and start
\* is the time of the call; during the check last_size is the size of the
\* latest reading of this check; and the stable return rests on two readings
\* of this check, both taken after it began.  Two consecutive events for one
\* path can both emit (C11_Witness).
C11_EveryCheckStartsAfresh ==
    /\ (pc = "loop" /\ Polls = 0) => (last_size = NoReading /\ start = now)
    /\ (pc # "idle" /\ Polls > 0) => last_size = readings[Polls].size
    /\ \A i \in 1..Polls : readings[i].at >= start
    /\ (checks >= 2 /\ verdict = "Stable") => Polls >= 2

C11_Witness ==
    /\ checks = 2 /\ returns = 2
    /\ Len(emitted) = 2
    /\ emitted[1].path = emitted[2].path
    /\ emitted[1].ev = 1 /\ emitted[2].ev = 2
    /\ verdict = "Stable" /\ Polls = 2
    /\ readings[1].at >= start

\* C12: events are handled one at a time and in the order they were raised:
\* at most one check is open at any time, and one is open exactly while the
\* observer thread is inside on_created; the events still waiting are the
\* ones raised after every dispatched event, in order, so the k-th event
\* dispatched is the k-th raised; an event waits in the queue while an earlier
\* check runs; and the emissions are in the order of their events.
C12_ChecksOneAtATimeInOrder ==
    /\ checks - returns \in {0, 1}
    /\ (pc = "idle") <=> (checks = returns)
    /\ \A i \in 1..Len(queue) : queue[i].n = evIndex + i /\ queue[i].at <= now
    /\ checkEv <= evIndex
    /\ \A i, j \in 1..Len(emitted) : i < j => emitted[i].ev < emitted[j].ev
    /\ \A i \in 1..Len(emitted) : emitted[i].ev <= checkEv

\* the second check has begun a whole timeout after its event was raised, the
\* first check having ended by the timeout return
C12_Witness ==
    /\ checks = 2 /\ returns = 1
    /\ pc = "loop" /\ Polls = 0
    /\ waited >= TimeoutMs
    /\ Len(emitted) = 1 /\ emitted[1].via = "TimedOut"

\* the state of _wait_for_stable_file and what on_created has done so far
checkState == <<now, pc, path, start, last_size, emitted, checkEv, checks, returns,
                readings, verdict, result>>

\* C13: an event that is not a creation event (modified, deleted, moved) starts
\* no check, emits nothing and changes nothing of the latest check, neither
\* when it is dispatched nor when it is raised while a check is running.
C13_OnlyCreationEventsConsumed ==
    [][ /\ (evIndex' = evIndex + 1 /\ event'.event_type # "created")
            => UNCHANGED checkState
        /\ (Len(queue') > Len(queue) /\ queue'[Len(queue')].e.event_type # "created")
            => UNCHANGED checkState ]_vars

\* a moved event, raised while the check of the event before it was running,
\* has been dispatched after that check emitted
C13_Witness ==
    /\ event.event_type = "moved"
    /\ evIndex = 2 /\ checkEv = 1
    /\ waited > 0
    /\ checks = 1 /\ returns = 1 /\ Len(emitted) = 1

\* C14 as stated: a check takes at most timeout / poll interval readings, that
\* is at most 2500 / 80 = 31.25 of them.
C14_PollsAtMostTimeoutOverInterval == Polls * PollIntervalMs <= TimeoutMs

\* C14 amended: every check ends, whatever the file does.  Its start (and so
\* its deadline start + 2500 ms) never changes while it runs; every reading
\* is taken before the deadline; a check is over within one sleep after the
\* deadline; and it takes at most ceil(2500 / 80) = 32 readings: the k-th
\* reading is taken no earlier than (k - 1) * 80 ms after the start and the
\* 32nd, at 2480 ms, is still before the deadline.
C14_EveryCheckTerminates ==
    /\ [](\A i \in 1..Polls : readings[i].at - start < TimeoutMs)
    /\ [](\A i \in 1..Polls : readings[i].at - start >= (i - 1) * PollIntervalMs)
    /\ [](Polls <= CeilDiv(TimeoutMs, PollIntervalMs))
    /\ [](pc # "idle" => now - start < TimeoutMs + sleepMs)
    /\ [][(pc # "idle" /\ pc' # "idle") => start' = start]_vars
    /\ [](checks > returns => <>(checks = returns))

\* a check of a file that stayed empty has ended by the timeout return after
\* 32 readings, the last one 2480 ms after the start
C14_Witness ==
    /\ verdict = "TimedOut"
    /\ Polls = CeilDiv(TimeoutMs, PollIntervalMs)
    /\ readings[Polls].at - start = TimeoutMs - 20
    /\ \A i \in 1..Polls : readings[i].exists /\ readings[i].size = 0

\* the verdict of the specification's algorithm that a return of the code
\* stands for
VerdictOf(v) ==
    CASE v = "Stable"   -> "Stable"
      [] v = "TimedOut" -> "TimedOutAssumedStable"
      [] v = "Vanished" -> "VanishedBeforeStable"
      [] v = "None"     -> "None"

\* C15: run beside every check on the same clock and the same stat outcomes,
\* the specification's algorithm is in step with _wait_for_stable_file: the
\* same deadline, the same number of stat calls, the same remembered size
\* (none before the first reading), a sleep begun after every reading that
\* did not end the check and only then, the same return taken; and the code
\* returns True exactly for Stable and TimedOutAssumedStable, False exactly
\* for VanishedBeforeStable.
C15_CodeRefinesSpecAlgorithm ==
    checks > 0 =>
        /\ ref.deadline = start + TimeoutMs
        /\ ref.stats = Polls
        /\ ref.verdict = VerdictOf(verdict)
        /\ ref.last_size.known <=> (last_size # NoReading)
        /\ ref.last_size.known => ref.last_size.size = last_size
        /\ ref.sleeps = Polls - (IF verdict \in {"Stable", "Vanished"} THEN 1 ELSE 0)
        /\ (pc = "sleep") => (ref.verdict = "None" /\ ref.sleeps = Polls)
        /\ (pc = "idle") <=> (ref.verdict # "None")
        /\ (pc = "idle" /\ result = TRUE)
              <=> (ref.verdict \in {"Stable", "TimedOutAssumedStable"})
        /\ (pc = "idle" /\ result = FALSE) <=> (ref.verdict = "VanishedBeforeStable")
        /\ \A i \in 1..Polls : readings[i].at < ref.deadline

\* both have returned Stable after the same three readings, the first of
\* them a smaller size
C15_Witness ==
    /\ pc = "idle" /\ checks = 1
    /\ verdict = "Stable" /\ ref.verdict = "Stable" /\ result = TRUE
    /\ Polls = 3 /\ ref.stats = 3 /\ ref.sleeps = 2
    /\ readings[1].size < readings[2].size

(***************************************************************************)
(* The watcher alone.  What on_created emits for one event is computed     *)
(* here from what the observer thread is given: the event, the time of the *)
(* call, the length of a sleep and the files.  Nothing the UI thread owns  *)
(* (the pause flag, the popup, the pointer) is read.                       *)
(***************************************************************************)

\* lines 72-80 from the poll made at time t on: the return taken and when
RECURSIVE PollFrom(_, _, _, _, _)
PollFrom(p, st, d, t, last) ==
    IF ~(t - st < TimeoutMs)
    THEN [via |-> "TimedOut", at |-> t]
    ELSE IF ~FileOf(p, t).exists
    THEN [via |-> "Vanished", at |-> t]
    ELSE IF FileOf(p, t).size > 0 /\ FileOf(p, t).size = last
    THEN [via |-> "Stable", at |-> t]
    ELSE PollFrom(p, st, d, t + d, FileOf(p, t).size)

\* _wait_for_stable_file(path) called at time st, each sleep taking d ms
Outcome(p, st, d) == PollFrom(p, st, d, st, NoReading)

\* on_created, lines 57-66, called with event e, the k-th dispatched, at time
\* st: nothing for a directory or a path that is no image (lines 58-62),
\* else what the check of lines 63-66 gives
ExpectedEmissionsUnfiltered(e, k, st, d) ==
    IF Outcome(e.src_path, st, d).via \in {"Stable", "TimedOut"}
    THEN << [path |-> PathStr(e.src_path),
             ev |-> k,
             via |-> Outcome(e.src_path, st, d).via,
             src |-> e.src_path,
             file |-> FileOf(e.src_path, Outcome(e.src_path, st, d).at)] >>
    ELSE << >>

ExpectedEmissions(e, k, st, d) ==
    IF PassesFilter(e) /\ Outcome(e.src_path, st, d).via \in {"Stable", "TimedOut"}
    THEN << [path |-> PathStr(e.src_path),
             ev |-> k,
             via |-> Outcome(e.src_path, st, d).via,
             src |-> e.src_path,
             file |-> FileOf(e.src_path, Outcome(e.src_path, st, d).at)] >>
    ELSE << >>

\* a step in which _wait_for_stable_file returns
CheckReturns == pc = "loop" /\ pc' = "idle"

\* the event of the latest check: a file created at the path checked
CheckedEvent == [event_type |-> "created", is_directory |-> FALSE, src_path |-> path]

\* a step in which on_created is called and returns at line 59 or line 62
EventTurnedAway == evIndex' = evIndex + 1 /\ pc' = "idle"

\* C16: the ReadyEvents emitted do not depend on UI state.  In every
\* interleaving with toggle_pause, the delivery of ReadyEvents and the popup's
\* timer and animations, the return of a check appends to the emissions
\* exactly what the watcher alone gives for the event, the time of the call,
\* the sleeps and the files, whatever the pause flag and the popup are; no
\* other step changes the emissions; a step that changes anything of the UI
\* thread changes nothing of the watcher, and the other way round; an event
\* on_created turns away (a directory, a path that is no image) is one the
\* watcher alone gives no ReadyEvent for, even with a file under its path;
\* and after a check has returned its verdict is the watcher's alone and its
\* ReadyEvent, if it has one, is the last emitted.
C16_EmissionsIndependentOfUi ==
    /\ [][ /\ CheckReturns
                => emitted' = emitted \o ExpectedEmissions(event, checkEv, start, sleepMs)
           /\ ~CheckReturns => emitted' = emitted
           /\ EventTurnedAway
                => ExpectedEmissions(event', evIndex', now, sleepMs) = << >>
           /\ (uiVars' # uiVars) => UNCHANGED watcherVars
           /\ (watcherVars' # watcherVars) => UNCHANGED uiVars ]_vars
    /\ []((pc = "idle" /\ checks > 0) =>
            /\ verdict = Outcome(path, start, sleepMs).via
            /\ now = Outcome(path, start, sleepMs).at
            /\ IF result
               THEN /\ emitted # << >>
                    /\ << emitted[Len(emitted)] >>
                          = ExpectedEmissions(CheckedEvent, checkEv, start, sleepMs)
               ELSE ExpectedEmissions(CheckedEvent, checkEv, start, sleepMs) = << >>)

\* two ReadyEvents have been emitted: the first was shown and its popup is
\* sliding out, the pause flag is set, and the second, of a file that kept
\* growing until the deadline, was emitted all the same and has not yet
\* reached the UI thread
C16_Witness ==
    /\ Len(emitted) = 2
    /\ emitted[2].via = "TimedOut"
    /\ paused
    /\ popup.is_animating_out
    /\ uiLog.shown = <<1>>
    /\ delivered = 1

\* an event with a file under its path has been turned away while the pause
\* flag was set and the popup shown: nothing was emitted for it
TurnedAwayWhilePaused ==
    /\ pc = "idle" /\ evIndex = 2
    /\ ~PassesFilter(event)
    /\ FileNow(event.src_path).exists
    /\ paused /\ popup.visible
    /\ Len(emitted) = 1

\* a check has returned False while the pause flag was set and the popup
\* shown: nothing was emitted for its event
VanishedWhilePaused ==
    /\ pc = "idle" /\ verdict = "Vanished"
    /\ paused /\ popup.visible
    /\ EmittedFor(checkEv) = {}

\* the events whose ReadyEvent has been passed to show_preview, or dropped
ShownEvents == { uiLog.shown[i] : i \in 1..Len(uiLog.shown) }

DroppedEvents == { uiLog.dropped[i] : i \in 1..Len(uiLog.dropped) }

\* the path the ReadyEvent of event k carried
EmittedPath(k) == emitted[CHOOSE i \in 1..Len(emitted) : emitted[i].ev = k].path

\* C17: a ReadyEvent that reaches on_new_file while _paused is set leaves the
\* whole popup as it was and is kept nowhere: toggle_pause changes the flag
\* and nothing else, so un-pausing shows nothing; the popup changes its file
\* only by a ReadyEvent that arrived while not paused, and shows the file of
\* the latest such event; every ReadyEvent delivered is either shown or
\* dropped, never both.
C17_PausedReadyEventsAreDropped ==
    /\ [][ /\ (delivered' = delivered + 1 /\ paused) => popup' = popup
           /\ (paused' # paused) => (popup' = popup /\ delivered' = delivered)
           /\ (popup'.current_file # popup.current_file)
                => (delivered' = delivered + 1 /\ ~paused) ]_vars
    /\ [](ShownEvents \cap DroppedEvents = {})
    /\ [](Len(uiLog.shown) + Len(uiLog.dropped) = delivered)
    /\ [](popup.current_file =
            IF uiLog.shown = <<>> THEN NoPath
            ELSE EmittedPath(uiLog.shown[Len(uiLog.shown)]))

\* the second screenshot arrived during the pause and was dropped; after
\* un-pausing the popup still shows the first, with its timer running on
C17_Witness ==
    /\ ~paused
    /\ uiLog.shown = <<1>> /\ uiLog.dropped = <<2>>
    /\ popup.current_file = EmittedPath(1)
    /\ popup.current_file # EmittedPath(2)
    /\ popup.visible /\ popup.hide_timer.active
    /\ popup.hide_timer.left < PopupMs

\* a step in which hide is called: the timer fires, the right button is
\* pressed, or the left button is released on a click
TimerFires ==
    /\ popup.hide_timer.active /\ popup.hide_timer.left = 0
    /\ ~popup'.hide_timer.active

HideRequested ==
    \/ TimerFires
    \/ ~pointer.right /\ pointer'.right
    \/ /\ pointer.left /\ ~pointer'.left
       /\ popup.visible /\ ~pointer.dragging
       /\ popup.current_file # NoPath /\ ~popup.drag_started

\* C18: _is_animating_out is set exactly while the slide-out animation is
\* running.  So a call of hide while no slide-out runs starts one (400 ms to
\* go), a call while one runs leaves it as it is, and a running slide-out is
\* never started again or replaced.
C18_FlagIffSlideOutRunning ==
    /\ [](popup.is_animating_out <=> (popup.slide_out_animation = "Running"))
    /\ [][ HideRequested =>
              IF popup.slide_out_animation = "Running"
              THEN /\ popup'.slide_out_animation = "Running"
                   /\ popup'.slide_out_left = popup.slide_out_left
              ELSE /\ popup'.slide_out_animation = "Running"
                   /\ popup'.slide_out_left = SlideOutMs
                   /\ popup'.is_animating_out ]_vars
    /\ [][ (popup.slide_out_animation = "Running" /\ popup'.slide_out_animation = "Running")
              => popup'.slide_out_left <= popup.slide_out_left ]_vars

\* the second preview is sliding out: its timer has fired and the right
\* button is held, one of the two calls of hide having found the slide-out
\* of the other running; the slide-out of the first preview had ended
C18_Witness ==
    /\ Len(uiLog.shown) = 2 /\ ~uiLog.cancelled
    /\ popup.visible
    /\ popup.is_animating_out /\ popup.slide_out_animation = "Running"
    /\ popup.slide_out_left = 0
    /\ ~popup.hide_timer.active /\ pointer.right

\* a step in which on_new_file calls show_preview
ShowStep == delivered' = delivered + 1 /\ ~paused

\* C19: after show_preview the popup is shown with the new file, no slide-out
\* is running and the hide timer has its full popup_seconds to go, whatever
\* was pending or running before.  The timer, while it runs, has counted
\* from the latest show_preview, so it fires popup_seconds after it and not
\* before; and the window is hidden only when a slide-out reaches its end,
\* which is never sooner than the 400 ms of a slide-out begun after the
\* latest show_preview.
C19_ShowPreviewOverridesEarlierHide ==
    /\ [][ ShowStep =>
              /\ popup'.visible
              /\ popup'.current_file = emitted[delivered + 1].path
              /\ popup'.slide_out_animation # "Running"
              /\ ~popup'.is_animating_out
              /\ popup'.hide_timer = [active |-> TRUE, left |-> PopupMs] ]_vars
    /\ [](popup.hide_timer.active
            => popup.hide_timer.left = PopupMs - uiLog.sinceShow)
    /\ [][ TimerFires => uiLog.sinceShow >= PopupMs ]_vars
    /\ [][ (popup.visible /\ ~popup'.visible) =>
              /\ popup.slide_out_animation = "Running"
              /\ popup.slide_out_left = 0
              /\ uiLog.sinceShow >= SlideOutMs ]_vars

\* the second preview arrived while the first was sliding out; the slide-out
\* was stopped, and past the time it would have ended the popup still shows
\* the second file, its timer counting from the second show_preview
C19_Witness ==
    /\ uiLog.shown = <<1, 2>> /\ uiLog.cancelled
    /\ popup.visible
    /\ popup.current_file = EmittedPath(2)
    /\ popup.slide_out_animation = "Stopped" /\ ~popup.is_animating_out
    /\ uiLog.sinceShow > SlideOutMs
    /\ popup.hide_timer.active
    /\ popup.hide_timer.left = PopupMs - uiLog.sinceShow

\* a release reaches mouseReleaseEvent: a button goes up over the visible popup
ReleaseStep ==
    /\ popup.visible /\ ~pointer.dragging
    /\ \/ pointer.left /\ ~pointer'.left
       \/ pointer.right /\ ~pointer'.right
       \/ pointer.middle /\ ~pointer'.middle

\* what the claim says of drags, of releases in general, and of the state
\* after a release
DragsAndReleases ==
    /\ [](uiLog.drags <= 1 /\ uiLog.opens <= 1)
    /\ [](uiLog.drags = 1 => uiLog.dragDist >= DragDistance)
    /\ [][ (~pointer.dragging /\ pointer'.dragging) =>
              /\ popup.current_file # NoPath
              /\ popup.press_pos # NoPos
              /\ pointer.left
              /\ ~popup.drag_started /\ popup'.drag_started
              /\ uiLog.drags = 0 /\ uiLog'.drags = 1
              /\ uiLog'.dragDist >= DragDistance ]_vars
    /\ [][ (uiLog'.opens = uiLog.opens + 1) =>
              /\ pointer.left /\ ~pointer'.left
              /\ ~popup.drag_started
              /\ popup'.is_animating_out ]_vars
    /\ [][ ReleaseStep => (popup'.press_pos = NoPos /\ ~popup'.drag_started) ]_vars

\* C20: of a press of the left button, its moves and its release comes at
\* most one drag or one opening of Explorer, never both.  A drag starts only
\* with current_file set, the left button held since a press, no drag
\* started since that press and the pointer 8 px or more (Manhattan) from
\* the press position.  A release opens Explorer only if it is of the left
\* button and no drag has started since the press, and it then calls hide.
\* After every release _press_pos is None and _drag_started is False.
C20_OneDragOrOneOpenPerGesture ==
    /\ DragsAndReleases
    /\ [](uiLog.drags + uiLog.opens <= 1)
    /\ [][ (uiLog'.opens = uiLog.opens + 1) => uiLog.drags = 0 ]_vars

\* C20, for the gestures during which no other button is released: the same
\* statement, with "never both" and "no drag since the press" asked only
\* while no release of the right or the middle button has come between the
\* press and the release of the left one.
C20_WithoutOtherButtons ==
    /\ DragsAndReleases
    /\ [](~uiLog.foreign => uiLog.drags + uiLog.opens <= 1)
    /\ [][ (uiLog'.opens = uiLog.opens + 1 /\ ~uiLog.foreign) => uiLog.drags = 0 ]_vars

\* a drag was started 8 px from the press position and then cancelled with
\* the button held; the release that followed opened nothing and reset
\* _press_pos and _drag_started
C20_Witness ==
    /\ uiLog.drags = 1 /\ uiLog.opens = 0
    /\ uiLog.dragDist = DragDistance
    /\ ~uiLog.foreign
    /\ ~pointer.left /\ ~pointer.dragging
    /\ popup.press_pos = NoPos /\ ~popup.drag_started
    /\ popup.visible /\ ~popup.is_animating_out

\* one gesture with a drag and an opening of Explorer: the drag was
\* cancelled with the left button held, another button was released over
\* the popup, and the release of the left button was then taken for a click
C20_DragAndOpen ==
    /\ uiLog.drags = 1 /\ uiLog.opens = 1
    /\ uiLog.foreign
    /\ ~pointer.left /\ ~pointer.right /\ ~pointer.middle
    /\ popup.is_animating_out

====
